---- MODULE Spec2Model ----
(***************************************************************************)
(* Console registry and I/O dispatch of lib/ukconsole (console.c): the     *)
(* list of registered console devices, the id counter, the "standard       *)
(* assigned" latch, and the broadcast-out / aggregate-in / direct I/O      *)
(* entry points.  Device drivers are the environment: what a device's out  *)
(* function returns, and what its in function delivers, are inputs of the  *)
(* call.  The NS16550 UART driver (ns16550.c) is one such driver: its      *)
(* register programming, its transmit loop and its receive poll are        *)
(* modelled step by step against the register file of the UART.            *)
(***************************************************************************)
EXTENDS Integers, Sequences, FiniteSets, TLC

(* ------------------------------------------------------------------ *)
(* Bounds of the model                                                 *)
(* ------------------------------------------------------------------ *)

\* number of console device objects (addresses 1..MaxDevs) that exist
MaxDevs == 2

\* largest len passed to an I/O entry point, and most bytes a device holds
MaxLen == 2

(* ------------------------------------------------------------------ *)
(* Program constants                                                   *)
(* ------------------------------------------------------------------ *)

\* the two flag bits of struct uk_console.flags tested and set by
\* console.c (their values are those of <uk/console.h>)
UK_CONSOLE_FLAG_STDOUT == 1

UK_CONSOLE_FLAG_STDIN == 2

\* errno value returned (negated) for invalid arguments
EINVAL == 22

\* the null device pointer (__NULL)
NullDev == 0

\* width of __u16 uk_console_device_count and of the id field
U16 == 65536

(* ------------------------------------------------------------------ *)
(* Values                                                              *)
(* ------------------------------------------------------------------ *)

\* addresses of the console device objects drivers may register
Dev == 1..MaxDevs

\* a bit of dev->flags (an int) other than the two the registry tests
FLAG_OTHER == 4

\* values of dev->flags the drivers pass: every combination of the two
\* bits, and a non-zero value that has neither
FlagSet == 0..(UK_CONSOLE_FLAG_STDOUT + UK_CONSOLE_FLAG_STDIN) \cup {FLAG_OTHER}

\* a device's ops table: which of the two function pointers are non-null
\* ("oi" both, "o" only out, "i" only in, "none" neither); "null" is a
\* device whose ops pointer itself is null
OpsSet == {"oi", "o", "i", "none"}

NullOps == "null"

HasOut(ops) == ops \in {"oi", "o"}

HasIn(ops) == ops \in {"oi", "i"}

\* buffer pointers: the null pointer, or an offset into the caller's buffer
NullBuf == [base |-> "null", off |-> 0]

Buf == [base |-> "buf", off |-> 0]

\* bitwise and / or of two non-negative ints (the C operators & and |)
RECURSIVE BitAnd(_, _)
BitAnd(a, b) ==
    IF a = 0 \/ b = 0 THEN 0
    ELSE (a % 2) * (b % 2) + 2 * BitAnd(a \div 2, b \div 2)

BitOr(a, b) == a + b - BitAnd(a, b)

STD_BOTH == BitOr(UK_CONSOLE_FLAG_STDOUT, UK_CONSOLE_FLAG_STDIN)

(* ------------------------------------------------------------------ *)
(* NS16550: register offsets and bits (ns16550.c)                      *)
(* ------------------------------------------------------------------ *)

NS16550_THR_OFFSET == 0

NS16550_RBR_OFFSET == 0

NS16550_DLL_OFFSET == 0

NS16550_IER_OFFSET == 1

NS16550_DLM_OFFSET == 0

NS16550_IIR_OFFSET == 2

NS16550_FCR_OFFSET == 2

NS16550_LCR_OFFSET == 3

NS16550_LSR_OFFSET == 5

NS16550_LCR_WL == 3

NS16550_LCR_STOP == 4

NS16550_LCR_PARITY == 56

NS16550_LCR_BREAK == 64

NS16550_LCR_DLAB == 128

NS16550_LCR_8N1 == 3

NS16550_DLL_115200 == 1

NS16550_DLM_115200 == 0

NS16550_IIR_NO_INT == 1

NS16550_FCR_FIFO_EN == 1

NS16550_LSR_RX_EMPTY == 1

NS16550_LSR_TX_EMPTY == 64

\* width of a UART register, and of the "a & 0xff" put into THR
BYTE == 256

\* a __u32 as its two 16-bit halves, and the C operators ~, & and | on it
W32(x) == [hi |-> x \div U16, lo |-> x % U16]

Not32(a) == [hi |-> U16 - 1 - a.hi, lo |-> U16 - 1 - a.lo]

And32(a, b) == [hi |-> BitAnd(a.hi, b.hi), lo |-> BitAnd(a.lo, b.lo)]

Or32(a, b) == [hi |-> BitOr(a.hi, b.hi), lo |-> BitOr(a.lo, b.lo)]

\* '\n' and '\r'
LF == 10

CR == 13

(* ------------------------------------------------------------------ *)
(* NS16550: the register file behind ns16550_io_read / ns16550_io_write *)
(* ------------------------------------------------------------------ *)

\* a UART after reset: divisor latch closed, transmitter empty, no input
UartReset ==
    [lcr |-> 0, ier |-> 0, fcr |-> 0, iir |-> 1, dll |-> 0, dlm |-> 0,
     tx |-> TRUE, rx |-> <<>>, wire |-> <<>>]

\* the divisor latch access bit of the UART's line control register
Dlab(u) == BitAnd(u.lcr, 128) # 0

\* the line status register: bit 0 data ready, bits 5 and 6 transmitter empty
Lsr(u) == (IF u.rx # <<>> THEN 1 ELSE 0) + (IF u.tx THEN 96 ELSE 0)

\* the value a read at register offset off gives
RegRead(u, off) ==
    CASE off = 0 -> (IF Dlab(u) THEN u.dll
                     ELSE IF u.rx # <<>> THEN Head(u.rx) ELSE 0)
      [] off = 1 -> (IF Dlab(u) THEN u.dlm ELSE u.ier)
      [] off = 2 -> u.iir
      [] off = 3 -> u.lcr
      [] off = 5 -> Lsr(u)
      [] OTHER -> 0

\* the UART after that read: a read of the receive buffer takes the byte
AfterRead(u, off) ==
    IF off = 0 /\ ~Dlab(u) /\ u.rx # <<>>
    THEN [u EXCEPT !.rx = Tail(u.rx)] ELSE u

\* the UART after val is written at register offset off: with the divisor
\* latch open offsets 0 and 1 are the divisor, else the transmit holding
\* register (the byte goes on the wire) and the interrupt enable register
RegWrite(u, off, val) ==
    CASE off = 0 -> (IF Dlab(u) THEN [u EXCEPT !.dll = val % BYTE]
                     ELSE [u EXCEPT !.wire = Append(@, val % BYTE),
                                    !.tx = FALSE])
      [] off = 1 -> (IF Dlab(u) THEN [u EXCEPT !.dlm = val % BYTE]
                     ELSE [u EXCEPT !.ier = val % BYTE])
      [] off = 2 -> [u EXCEPT !.fcr = val % BYTE]
      [] off = 3 -> [u EXCEPT !.lcr = val % BYTE]
      [] OTHER -> u

\* ns16550_io_read: the __u32 a read at register offset off gives
IoRead(u, off) == W32(RegRead(u, off))

\* ns16550_io_write: the UART after the __u32 v is written at offset off
IoWrite(u, off, v) == RegWrite(u, off, v.lo)

(* ------------------------------------------------------------------ *)
(* State                                                               *)
(* ------------------------------------------------------------------ *)

VARIABLES
    uk_console_device_list,        \* registered devices, head to tail
    uk_console_device_count,       \* __u16 counter that mints the ids
    uk_console_set_standard_once,  \* the "standard assigned" latch, 0 or 1
    con,                           \* registered device -> its struct uk_console
    reg_flags,                     \* registered device -> flags it was registered with
    op,                            \* the I/O call whose result is pending, or idle
    ret,                           \* the value that call returned
    calls,                         \* device functions the last call invoked, in order
    mem,                           \* caller's buffer after the last uk_console_in*
    uart,                          \* device -> registers and lines of its NS16550
    drv                            \* the kernel thread inside the NS16550 driver

vars == <<uk_console_device_list, uk_console_device_count,
          uk_console_set_standard_once, con, reg_flags, op, ret, calls, mem,
          uart, drv>>

driver == <<uart, drv>>

registry == <<uk_console_device_list, uk_console_device_count,
              uk_console_set_standard_once, con, reg_flags>>

Registered == {uk_console_device_list[i] : i \in 1..Len(uk_console_device_list)}

\* the kernel thread outside the driver: its position, the device it works
\* on (and that device's place in the list), the buffer and length it was
\* called with, the bytes still to do, the value computed or returned
KIdle ==
    [pc |-> "idle", dev |-> NullDev, idx |-> 0, buf |-> <<>>, len |-> 0,
     leftover |-> 0, off |-> 0, dlen |-> 0, l |-> 0, i |-> 0, a |-> 0,
     more |-> FALSE,
     val |-> 0, ret |-> 0, polls |-> 0]

Init ==
    /\ uk_console_device_list = <<>>
    /\ uk_console_device_count = 0
    /\ uk_console_set_standard_once = 0
    /\ con = <<>>
    /\ reg_flags = <<>>
    /\ op = [name |-> "idle"]
    /\ ret = 0
    /\ calls = <<>>
    /\ mem = <<>>
    /\ uart = [d \in Dev |-> UartReset]
    /\ drv = KIdle

(* ------------------------------------------------------------------ *)
(* uk_console_count, uk_console_get                                    *)
(* ------------------------------------------------------------------ *)

uk_console_count == uk_console_device_count

\* (mutant) a lookup that returns the loop cursor when nothing matched
RECURSIVE GetFrom_ReturnsCursor(_, _)
GetFrom_ReturnsCursor(i, id) ==
    IF i > Len(uk_console_device_list)
    THEN (IF i = 1 THEN NullDev ELSE uk_console_device_list[i - 1])
    ELSE IF con[uk_console_device_list[i]].id = id
         THEN uk_console_device_list[i]
         ELSE GetFrom_ReturnsCursor(i + 1, id)

\* first device of the list, from position i on, whose id field equals id
RECURSIVE GetFrom(_, _)
GetFrom(i, id) ==
    IF i > Len(uk_console_device_list) THEN NullDev
    ELSE IF con[uk_console_device_list[i]].id = id
         THEN uk_console_device_list[i]
         ELSE GetFrom(i + 1, id)

uk_console_get(id) == GetFrom(1, id)

(* ------------------------------------------------------------------ *)
(* uk_console_register                                                 *)
(* ------------------------------------------------------------------ *)

\* the latch after "if (dev->flags) uk_console_set_standard_once = 1;"
RegLatchFlagged(once, flags) == IF flags # 0 THEN 1 ELSE once

\* (mutant) promotion that does not look at the latch
RegPromotes_IgnoreLatch(once, flags) == BitAnd(flags, STD_BOTH) = 0

\* the condition of the promotion branch, on the latch as updated above
RegPromotes(once, flags) ==
    /\ RegLatchFlagged(once, flags) = 0
    /\ BitAnd(flags, STD_BOTH) = 0

\* (mutant) the latch set by the promotion branch alone
RegLatch_OnlyOnPromotion(once, flags) ==
    IF RegPromotes(once, flags) THEN 1 ELSE once

\* the latch when uk_console_register returns
RegLatch(once, flags) ==
    IF RegPromotes(once, flags) THEN 1 ELSE RegLatchFlagged(once, flags)

\* dev->flags when uk_console_register returns
RegFlags(once, flags) ==
    IF RegPromotes(once, flags) THEN BitOr(flags, STD_BOTH) ELSE flags

\* (mutant) the id taken after the increment
RegId_PreIncrement(count) == (count + 1) % U16

\* dev->id = uk_console_device_count++ : the id given, and the counter after
RegId(count) == count

RegCount(count) == (count + 1) % U16

\* (mutant) uk_list_add: insertion at the head
ListAddTail_AtHead(list, d) == <<d>> \o list

\* uk_list_add_tail
ListAddTail(list, d) == Append(list, d)

uk_console_register(d, flags, ops) ==
    /\ d # NullDev                      \* UK_ASSERT(dev)
    /\ ops # NullOps                    \* UK_ASSERT(dev->ops)
    /\ d \notin Registered              \* UK_ASSERT(dev != known_dev)
    /\ uk_console_set_standard_once' =
           RegLatch(uk_console_set_standard_once, flags)
    /\ uk_console_device_list' = ListAddTail(uk_console_device_list, d)
    /\ con' = (d :> [flags |-> RegFlags(uk_console_set_standard_once, flags),
                     id |-> RegId(uk_console_device_count),
                     ops |-> ops]) @@ con
    /\ uk_console_device_count' = RegCount(uk_console_device_count)
    /\ reg_flags' = (d :> flags) @@ reg_flags
    /\ op' = [name |-> "idle"]            \* returns void
    /\ ret' = 0
    /\ calls' = <<>>
    /\ mem' = <<>>
    /\ UNCHANGED driver

(* ------------------------------------------------------------------ *)
(* The device contract: what a driver's out / in function does         *)
(* ------------------------------------------------------------------ *)

\* values a device's out function may return for a request of len bytes:
\* an error, a short count, or len
OutRcSet(len) == (-1)..len

\* the j-th byte device d has pending (non-zero, distinct per device)
RxByte(d, j) == 16 * d + j

RxData(d, n) == [j \in 1..n |-> RxByte(d, j)]

\* what a device's in function does when polled: "data" with n bytes
\* pending delivers up to the requested count; "neg" returns a negative
\* value; "over" claims one byte more than it was asked for
RespSet ==
    {[kind |-> "data", n |-> k] : k \in 0..MaxLen}
        \cup {[kind |-> "neg", n |-> 0], [kind |-> "over", n |-> 0]}

Min(a, b) == IF a <= b THEN a ELSE b

\* the in function of device d asked for len bytes, behaving as r:
\* its return value and the bytes it stores at the start of the buffer
DevIn(d, len, r) ==
    CASE r.kind = "neg" -> [rc |-> -1, bytes |-> <<>>]
      [] r.kind = "over" -> [rc |-> len + 1, bytes |-> RxData(d, len)]
      [] OTHER -> [rc |-> Min(len, r.n), bytes |-> RxData(d, Min(len, r.n))]

\* memory m with bytes stored from offset off on
Store(m, off, bytes) ==
    [k \in DOMAIN m |->
        IF k > off /\ k <= off + Len(bytes) THEN bytes[k - off] ELSE m[k]]

(* ------------------------------------------------------------------ *)
(* uk_console_out_direct, uk_console_in_direct                         *)
(* ------------------------------------------------------------------ *)

\* (mutant) a check that also rejects a device that is not in the list
OutDirectInvalid_RegisteredOnly(d, ops, buf) ==
    buf = NullBuf \/ d \notin Registered \/ ops = NullOps \/ ~HasOut(ops)

\* "!buf || !dev || !dev->ops || !dev->ops->out"
OutDirectInvalid(d, ops, buf) ==
    buf = NullBuf \/ d = NullDev \/ ops = NullOps \/ ~HasOut(ops)

\* (mutant) the check without its capability test
InDirectInvalid_NoCapCheck(d, ops, buf) ==
    buf = NullBuf \/ d = NullDev \/ ops = NullOps

\* "!buf || !dev || !dev->ops || !dev->ops->in"
InDirectInvalid(d, ops, buf) ==
    buf = NullBuf \/ d = NullDev \/ ops = NullOps \/ ~HasIn(ops)

\* d is the device pointer, ops its ops table, rc what its out returns
uk_console_out_direct(d, ops, buf, len, rc) ==
    IF len = 0 THEN [ret |-> 0, calls |-> <<>>]
    ELSE IF OutDirectInvalid(d, ops, buf)
         THEN [ret |-> -EINVAL, calls |-> <<>>]
         ELSE [ret |-> rc,
               calls |-> <<[dev |-> d, fn |-> "out", buf |-> buf,
                            len |-> len, rc |-> rc]>>]

\* (mutant) the argument check made before the length check
uk_console_in_direct_ArgsFirst(d, ops, buf, len, r) ==
    IF InDirectInvalid(d, ops, buf)
    THEN [ret |-> -EINVAL, calls |-> <<>>, wrote |-> <<>>]
    ELSE IF len = 0 THEN [ret |-> 0, calls |-> <<>>, wrote |-> <<>>]
         ELSE [ret |-> DevIn(d, len, r).rc,
               calls |-> <<[dev |-> d, fn |-> "in", buf |-> buf,
                            len |-> len, rc |-> DevIn(d, len, r).rc,
                            resp |-> r]>>,
               wrote |-> DevIn(d, len, r).bytes]

\* r is how the device's in function behaves; wrote is what it stored at buf
uk_console_in_direct(d, ops, buf, len, r) ==
    IF len = 0 THEN [ret |-> 0, calls |-> <<>>, wrote |-> <<>>]
    ELSE IF InDirectInvalid(d, ops, buf)
         THEN [ret |-> -EINVAL, calls |-> <<>>, wrote |-> <<>>]
         ELSE [ret |-> DevIn(d, len, r).rc,
               calls |-> <<[dev |-> d, fn |-> "in", buf |-> buf,
                            len |-> len, rc |-> DevIn(d, len, r).rc,
                            resp |-> r]>>,
               wrote |-> DevIn(d, len, r).bytes]

(* ------------------------------------------------------------------ *)
(* uk_console_out                                                      *)
(* ------------------------------------------------------------------ *)

\* (mutant) selection by capability alone
OutSelected_AnyFlag(s) == HasOut(s.ops)

\* "(dev->flags & UK_CONSOLE_FLAG_STDOUT) && dev->ops->out"
OutSelected(s) ==
    BitAnd(s.flags, UK_CONSOLE_FLAG_STDOUT) # 0 /\ HasOut(s.ops)

\* (mutant) a loop that ends after the first device it calls
RECURSIVE OutLoop_FirstOnly(_, _, _, _)
OutLoop_FirstOnly(i, buf, len, rcs) ==
    IF i > Len(uk_console_device_list) THEN <<>>
    ELSE LET d == uk_console_device_list[i]
         IN  IF OutSelected(con[d])
             THEN uk_console_out_direct(d, con[d].ops, buf, len, rcs[d]).calls
             ELSE OutLoop_FirstOnly(i + 1, buf, len, rcs)

\* the loop over the device list from position i on: the device calls made
RECURSIVE OutLoop(_, _, _, _)
OutLoop(i, buf, len, rcs) ==
    IF i > Len(uk_console_device_list) THEN <<>>
    ELSE LET d == uk_console_device_list[i]
         IN  (IF OutSelected(con[d])
              THEN uk_console_out_direct(d, con[d].ops, buf, len, rcs[d]).calls
              ELSE <<>>) \o OutLoop(i + 1, buf, len, rcs)

\* the value returned after the loop
OutRet(len) == len

uk_console_out(buf, len, rcs) ==
    IF len = 0 THEN [ret |-> 0, calls |-> <<>>]
    ELSE IF buf = NullBuf THEN [ret |-> -EINVAL, calls |-> <<>>]
         ELSE [ret |-> OutRet(len), calls |-> OutLoop(1, buf, len, rcs)]

(* ------------------------------------------------------------------ *)
(* uk_console_in                                                       *)
(* ------------------------------------------------------------------ *)

\* "(dev->flags & UK_CONSOLE_FLAG_STDIN) && dev->ops->in"
InSelected(s) ==
    BitAnd(s.flags, UK_CONSOLE_FLAG_STDIN) # 0 /\ HasIn(s.ops)

\* (mutant) acceptance without the upper bound
InAccepts_NoUpperBound(rc, leftover) == rc >= 0

\* "rc >= 0 && (__sz)rc <= leftover"
InAccepts(rc, leftover) == rc >= 0 /\ rc <= leftover

\* (mutant) a loop that also ends at a negative result
InBreaks_OnError(rc, leftover) == leftover = 0 \/ rc < 0

\* "if (leftover == 0) break;"
InBreaks(rc, leftover) == leftover = 0

\* (mutant) an iteration that leaves out "buf += rc"
InStep_NoAdvance(d, st, r) ==
    LET x == uk_console_in_direct(d, con[d].ops, st.buf, st.leftover, r)
        acc == InAccepts(x.ret, st.leftover)
    IN  [leftover |-> IF acc THEN st.leftover - x.ret ELSE st.leftover,
         buf |-> st.buf,
         mem |-> Store(st.mem, st.buf.off, x.wrote),
         calls |-> st.calls \o x.calls,
         rc |-> x.ret]

\* one iteration for a selected device d, from loop state st
InStep(d, st, r) ==
    LET x == uk_console_in_direct(d, con[d].ops, st.buf, st.leftover, r)
        acc == InAccepts(x.ret, st.leftover)
    IN  [leftover |-> IF acc THEN st.leftover - x.ret ELSE st.leftover,
         buf |-> IF acc THEN [st.buf EXCEPT !.off = @ + x.ret] ELSE st.buf,
         mem |-> Store(st.mem, st.buf.off, x.wrote),
         calls |-> st.calls \o x.calls,
         rc |-> x.ret]

\* the loop over the device list from position i on
RECURSIVE InLoop(_, _, _)
InLoop(i, st, resp) ==
    IF i > Len(uk_console_device_list) THEN st
    ELSE LET d == uk_console_device_list[i]
         IN  IF InSelected(con[d])
             THEN LET st2 == InStep(d, st, resp[d])
                  IN  IF InBreaks(st2.rc, st2.leftover) THEN st2
                      ELSE InLoop(i + 1, st2, resp)
             ELSE InLoop(i + 1, st, resp)

\* loop state on entry: nothing read, the caller's len bytes still zero
InStart(buf, len) ==
    [leftover |-> len, buf |-> buf, mem |-> [k \in 1..len |-> 0],
     calls |-> <<>>, rc |-> 0]

\* "return len - leftover;"
InRet(len, leftover) == len - leftover

uk_console_in(buf, len, resp) ==
    IF len = 0 THEN [ret |-> 0, calls |-> <<>>, mem |-> <<>>]
    ELSE IF buf = NullBuf THEN [ret |-> -EINVAL, calls |-> <<>>, mem |-> <<>>]
         ELSE LET st == InLoop(1, InStart(buf, len), resp)
              IN  [ret |-> InRet(len, st.leftover), calls |-> st.calls,
                   mem |-> st.mem]

(* ------------------------------------------------------------------ *)
(* The calls a kernel makes                                            *)
(* ------------------------------------------------------------------ *)

BufSet == {NullBuf, Buf}

LenSet == 0..MaxLen

\* the kernel makes one call at a time: a call that returned a value is
\* pending until its caller has taken the result
Pending ==
    op.name \in {"out", "in", "out_direct", "in_direct", "get", "count"}

\* the ops table a direct call finds behind device pointer d: the
\* registered device's own, or whatever the caller's object holds
DevOps(d) ==
    IF d \in Registered THEN {con[d].ops}
    ELSE IF d = NullDev THEN {NullOps} ELSE OpsSet \cup {NullOps}

\* the devices whose out / in function a broadcast or aggregate call can reach
OutDevs == {d \in Registered : OutSelected(con[d])}

InDevs == {d \in Registered : InSelected(con[d])}

\* drivers register their device objects in address order (console.c
\* never looks at a device's address, only at its identity)
NextDev == Len(uk_console_device_list) + 1

Register ==
    /\ ~Pending
    /\ NextDev \in Dev
    /\ \E flags \in FlagSet, ops \in OpsSet :
           uk_console_register(NextDev, flags, ops)

Out ==
    /\ ~Pending
    /\ \E buf \in BufSet, len \in LenSet :
         \E rcs \in [OutDevs -> OutRcSet(len)] :
           LET x == uk_console_out(buf, len, rcs)
           IN  /\ op' = [name |-> "out", buf |-> buf, len |-> len]
               /\ ret' = x.ret
               /\ calls' = x.calls
               /\ mem' = <<>>
               /\ UNCHANGED <<registry, driver>>

In ==
    /\ ~Pending
    /\ \E buf \in BufSet, len \in LenSet :
         \E resp \in [InDevs -> RespSet] :
           LET x == uk_console_in(buf, len, resp)
           IN  /\ op' = [name |-> "in", buf |-> buf, len |-> len]
               /\ ret' = x.ret
               /\ calls' = x.calls
               /\ mem' = x.mem
               /\ UNCHANGED <<registry, driver>>

OutDirect ==
    /\ ~Pending
    /\ \E d \in Dev \cup {NullDev}, buf \in BufSet, len \in LenSet :
         \E ops \in DevOps(d), rc \in OutRcSet(len) :
           LET x == uk_console_out_direct(d, ops, buf, len, rc)
           IN  /\ op' = [name |-> "out_direct", dev |-> d, ops |-> ops,
                         buf |-> buf, len |-> len]
               /\ ret' = x.ret
               /\ calls' = x.calls
               /\ mem' = <<>>
               /\ UNCHANGED <<registry, driver>>

InDirect ==
    /\ ~Pending
    /\ \E d \in Dev \cup {NullDev}, buf \in BufSet, len \in LenSet :
         \E ops \in DevOps(d), r \in RespSet :
           LET x == uk_console_in_direct(d, ops, buf, len, r)
           IN  /\ op' = [name |-> "in_direct", dev |-> d, ops |-> ops,
                         buf |-> buf, len |-> len]
               /\ ret' = x.ret
               /\ calls' = x.calls
               /\ mem' = Store([k \in 1..len |-> 0], 0, x.wrote)
               /\ UNCHANGED <<registry, driver>>

\* ids a caller may look up: the assigned ones and some never assigned
IdSet == 0..(MaxDevs + 1)

Get ==
    /\ ~Pending
    /\ \E id \in IdSet :
           /\ op' = [name |-> "get", id |-> id]
           /\ ret' = uk_console_get(id)
           /\ calls' = <<>>
           /\ mem' = <<>>
           /\ UNCHANGED <<registry, driver>>

Count ==
    /\ ~Pending
    /\ op' = [name |-> "count"]
    /\ ret' = uk_console_count
    /\ calls' = <<>>
    /\ mem' = <<>>
    /\ UNCHANGED <<registry, driver>>

\* the caller takes the result of its call and goes on
Return ==
    /\ Pending
    /\ op' = [name |-> "idle"]
    /\ ret' = 0
    /\ calls' = <<>>
    /\ mem' = <<>>
    /\ UNCHANGED <<registry, driver>>

Next ==
    Register \/ Get \/ Count \/ Out \/ In \/ OutDirect \/ InDirect \/ Return

Spec == Init /\ [][Next]_vars

(* ------------------------------------------------------------------ *)
(* ns16550_configure, one register write per step                      *)
(* ------------------------------------------------------------------ *)

\* the UART the kernel thread is working on
Cur == uart[drv.dev]

\* "ns16550_io_read(dev, NS16550_LCR_OFFSET) & ~(NS16550_LCR_DLAB)"
LcrDlabOff(lcr) == And32(lcr, Not32(W32(NS16550_LCR_DLAB)))

\* "ns16550_io_read(dev, NS16550_FCR_OFFSET) & ~(NS16550_IIR_NO_INT)"
IerValue(fcr) == And32(fcr, Not32(W32(NS16550_IIR_NO_INT)))

\* "ns16550_io_read(dev, NS16550_FCR_OFFSET) & ~(NS16550_FCR_FIFO_EN)"
FcrValue(fcr) == And32(fcr, Not32(W32(NS16550_FCR_FIFO_EN)))

\* "lcr = read | ~(WL | STOP | PARITY); lcr |= NS16550_LCR_8N1;"
LcrFraming(lcr) ==
    Or32(Or32(lcr,
              Not32(W32(BitOr(BitOr(NS16550_LCR_WL, NS16550_LCR_STOP),
                              NS16550_LCR_PARITY)))),
         W32(NS16550_LCR_8N1))

\* values the interrupt identification register may hold at boot
IirSet == {1, 193}

\* one UART is in whatever state the firmware left it, the others in reset
InitConfigure ==
    /\ uk_console_device_list = <<>>
    /\ uk_console_device_count = 0
    /\ uk_console_set_standard_once = 0
    /\ con = <<>>
    /\ reg_flags = <<>>
    /\ op = [name |-> "idle"]
    /\ ret = 0
    /\ calls = <<>>
    /\ mem = <<>>
    /\ \E d0 \in Dev, lcr \in 0..(BYTE - 1), iir \in IirSet :
           uart = [d \in Dev |->
                      IF d = d0
                      THEN [UartReset EXCEPT !.lcr = lcr, !.iir = iir]
                      ELSE UartReset]
    /\ drv = KIdle

console_state == <<registry, op, ret, calls, mem>>

\* a driver step: the thread moves to pc with its UART changed to u
DriverStep(pc, u) ==
    /\ uart' = [uart EXCEPT ![drv.dev] = u]
    /\ drv' = [drv EXCEPT !.pc = pc]
    /\ UNCHANGED console_state

\* wire records what each UART puts on the line during one driver call
WireReset == [d \in Dev |-> [uart[d] EXCEPT !.wire = <<>>]]

ConfigureCall ==
    /\ drv.pc = "idle"
    /\ \E d \in Dev : drv' = [KIdle EXCEPT !.pc = "cfg_dlab_off", !.dev = d]
    /\ uart' = WireReset
    /\ UNCHANGED console_state

\* "Clear DLAB to access IER, FCR, LCR"
CfgDlabOff ==
    /\ drv.pc = "cfg_dlab_off"
    /\ DriverStep("cfg_ier",
                  IoWrite(Cur, NS16550_LCR_OFFSET,
                          LcrDlabOff(IoRead(Cur, NS16550_LCR_OFFSET))))

\* "Disable all interrupts"
CfgIer ==
    /\ drv.pc = "cfg_ier"
    /\ DriverStep("cfg_fcr",
                  IoWrite(Cur, NS16550_IER_OFFSET,
                          IerValue(IoRead(Cur, NS16550_FCR_OFFSET))))

\* "Disable FIFOs"
CfgFcr ==
    /\ drv.pc = "cfg_fcr"
    /\ DriverStep("cfg_lcr",
                  IoWrite(Cur, NS16550_FCR_OFFSET,
                          FcrValue(IoRead(Cur, NS16550_FCR_OFFSET))))

\* "Set line control parameters (8n1)"; val keeps the value that was read
CfgLcr ==
    /\ drv.pc = "cfg_lcr"
    /\ uart' = [uart EXCEPT ![drv.dev] =
                   IoWrite(Cur, NS16550_LCR_OFFSET,
                           LcrFraming(IoRead(Cur, NS16550_LCR_OFFSET)))]
    /\ drv' = [drv EXCEPT !.pc = "cfg_dlab",
                          !.val = RegRead(Cur, NS16550_LCR_OFFSET)]
    /\ UNCHANGED console_state

\* "Set DLAB to access DLL / DLM"
CfgDlab ==
    /\ drv.pc = "cfg_dlab"
    /\ DriverStep("cfg_dll",
                  IoWrite(Cur, NS16550_LCR_OFFSET,
                          LcrDlabOff(IoRead(Cur, NS16550_LCR_OFFSET))))

\* "Set baud (115200)"
CfgDll ==
    /\ drv.pc = "cfg_dll"
    /\ DriverStep("cfg_dlm",
                  IoWrite(Cur, NS16550_DLL_OFFSET, W32(NS16550_DLL_115200)))

CfgDlm ==
    /\ drv.pc = "cfg_dlm"
    /\ DriverStep("cfg_ret",
                  IoWrite(Cur, NS16550_DLM_OFFSET, W32(NS16550_DLM_115200)))

\* "return 0;"
CfgReturn ==
    /\ drv.pc = "cfg_ret"
    /\ drv' = [drv EXCEPT !.pc = "idle", !.ret = 0]
    /\ UNCHANGED <<uart, console_state>>

NextConfigure ==
    \/ ConfigureCall
    \/ CfgDlabOff
    \/ CfgIer
    \/ CfgFcr
    \/ CfgLcr
    \/ CfgDlab
    \/ CfgDll
    \/ CfgDlm
    \/ CfgReturn

SpecConfigure == InitConfigure /\ [][NextConfigure]_vars

(* ------------------------------------------------------------------ *)
(* uk_console_out over NS16550 devices, one register access per step   *)
(* ------------------------------------------------------------------ *)

\* the chars a caller's buffer is made of: a line feed and a char with the
\* sign bit set
CharSet == {LF, -23}

RECURSIVE SeqsUpTo(_, _)
SeqsUpTo(S, n) ==
    IF n = 0 THEN {<<>>}
    ELSE LET shorter == SeqsUpTo(S, n - 1)
         IN  shorter \cup {Append(q, x) : q \in shorter, x \in S}

CharBufs == SeqsUpTo(CharSet, MaxLen) \ {<<>>}

\* flags a board passes to ns16550_register_console
UartFlagSet == {0, STD_BOTH}

InitUart ==
    /\ uk_console_device_list = <<>>
    /\ uk_console_device_count = 0
    /\ uk_console_set_standard_once = 0
    /\ con = <<>>
    /\ reg_flags = <<>>
    /\ op = [name |-> "idle"]
    /\ ret = 0
    /\ calls = <<>>
    /\ mem = <<>>
    /\ uart = [d \in Dev |-> UartReset]
    /\ drv = KIdle

\* "dev->con = UK_CONSOLE("NS16550", &ns16550_ops, flags);
\*  uk_console_register(&dev->con);"
ns16550_register_console ==
    /\ drv.pc = "idle"
    /\ NextDev \in Dev
    /\ \E flags \in UartFlagSet : uk_console_register(NextDev, flags, "oi")

\* uk_console_out(buf, len) with a buffer and a non-zero length
ConsoleOutCall ==
    /\ drv.pc = "idle"
    /\ \E buf \in CharBufs :
           drv' = [KIdle EXCEPT !.pc = "out_loop", !.idx = 1,
                                !.buf = buf, !.len = Len(buf)]
    /\ uart' = WireReset
    /\ UNCHANGED console_state

\* "uk_list_for_each_entry(dev, &uk_console_device_list, _list) ..."
\* and "return len;"
ConsoleOutLoop ==
    /\ drv.pc = "out_loop"
    /\ IF drv.idx > Len(uk_console_device_list)
       THEN drv' = [drv EXCEPT !.pc = "idle", !.ret = drv.len]
       ELSE LET d == uk_console_device_list[drv.idx]
            IN  IF OutSelected(con[d])
                THEN drv' = [drv EXCEPT !.pc = "ns_out", !.dev = d,
                                        !.l = drv.len, !.i = 0]
                ELSE drv' = [drv EXCEPT !.idx = @ + 1]
    /\ UNCHANGED <<uart, console_state>>

\* "while (l--) ns16550_putc(ns16550_dev, *buf++);  return len;"
NsOutLoop ==
    /\ drv.pc = "ns_out"
    /\ IF drv.l = 0
       THEN drv' = [drv EXCEPT !.pc = "out_loop", !.idx = @ + 1,
                               !.dlen = drv.len]
       ELSE drv' = [drv EXCEPT !.pc = "putc", !.l = @ - 1, !.i = @ + 1,
                               !.a = drv.buf[drv.i + 1]]
    /\ UNCHANGED <<uart, console_state>>

\* (mutant) a putc that sends the char alone
PutcSeq_NoCR(a) == <<a>>

\* the _putc calls of ns16550_putc(dev, a)
PutcSeq(a) == IF a = LF THEN <<CR, a>> ELSE <<a>>

ns16550_putc ==
    /\ drv.pc = "putc"
    /\ drv' = [drv EXCEPT !.pc = "putc_wait",
                          !.val = Head(PutcSeq(drv.a)),
                          !.more = Len(PutcSeq(drv.a)) > 1]
    /\ UNCHANGED <<uart, console_state>>

\* (mutant) a wait that gives up at once
TxEmpty_NoWait(u) == TRUE

\* "ns16550_io_read(dev, NS16550_LSR_OFFSET) & NS16550_LSR_TX_EMPTY"
TxEmpty(u) ==
    And32(IoRead(u, NS16550_LSR_OFFSET), W32(NS16550_LSR_TX_EMPTY)) # W32(0)

\* "while (!(... & NS16550_LSR_TX_EMPTY)) ;": an iteration that finds the
\* bit clear changes nothing
PutcWait ==
    /\ drv.pc = "putc_wait"
    /\ IF TxEmpty(Cur)
       THEN drv' = [drv EXCEPT !.pc = "putc_lcr"]
       ELSE UNCHANGED drv
    /\ UNCHANGED <<uart, console_state>>

\* "Reset DLAB ..."
PutcLcr ==
    /\ drv.pc = "putc_lcr"
    /\ DriverStep("putc_thr",
                  IoWrite(Cur, NS16550_LCR_OFFSET,
                          LcrDlabOff(IoRead(Cur, NS16550_LCR_OFFSET))))

\* "a & 0xff" for a char a
CharByte(a) == (a + BYTE) % BYTE

\* "... and write to THR"; then the second _putc of ns16550_putc, or back
PutcThr ==
    /\ drv.pc = "putc_thr"
    /\ uart' = [uart EXCEPT ![drv.dev] =
                   IoWrite(Cur, NS16550_THR_OFFSET, W32(CharByte(drv.val)))]
    /\ drv' = IF drv.more
              THEN [drv EXCEPT !.pc = "putc_wait", !.val = drv.a,
                               !.more = FALSE]
              ELSE [drv EXCEPT !.pc = "ns_out"]
    /\ UNCHANGED console_state

\* the transmitter has shifted the byte out
TxDrain(d) ==
    /\ ~uart[d].tx
    /\ uart' = [uart EXCEPT ![d].tx = TRUE]
    /\ UNCHANGED <<drv, console_state>>

Transport == \E d \in Dev : TxDrain(d)

OutThread ==
    \/ ConsoleOutLoop
    \/ NsOutLoop
    \/ ns16550_putc
    \/ PutcWait
    \/ PutcLcr
    \/ PutcThr

NextOut ==
    \/ ns16550_register_console
    \/ ConsoleOutCall
    \/ OutThread
    \/ Transport

SpecOut == InitUart /\ [][NextOut]_vars

\* the thread always gets to run; nothing is assumed of the transport
FairSpecOut == SpecOut /\ WF_vars(OutThread)

(* ------------------------------------------------------------------ *)
(* uk_console_in over NS16550 devices, one register access per step    *)
(* ------------------------------------------------------------------ *)

\* the bytes that arrive on a line: one below 0x80 and one above
LineBytes == {65, 233}

\* "(char)rc" for a byte rc
ToChar(b) == IF b >= 128 THEN b - BYTE ELSE b

in_state == <<registry, op, ret, calls>>

\* uk_console_in(buf, len) with a buffer and a non-zero length
ConsoleInCall ==
    /\ drv.pc = "idle"
    /\ \E len \in 1..MaxLen :
           /\ drv' = [KIdle EXCEPT !.pc = "in_loop", !.idx = 1, !.len = len,
                                   !.leftover = len]
           /\ mem' = [k \in 1..len |-> 0]
    /\ UNCHANGED <<uart, in_state>>

\* "uk_list_for_each_entry(dev, &uk_console_device_list, _list) ..."
\* and "return len - leftover;"
ConsoleInLoop ==
    /\ drv.pc = "in_loop"
    /\ IF drv.idx > Len(uk_console_device_list)
       THEN drv' = [drv EXCEPT !.pc = "idle",
                               !.ret = InRet(drv.len, drv.leftover)]
       ELSE LET d == uk_console_device_list[drv.idx]
            IN  IF InSelected(con[d])
                THEN drv' = [drv EXCEPT !.pc = "ns_in", !.dev = d,
                                        !.dlen = drv.leftover, !.i = 0,
                                        !.polls = 0]
                ELSE drv' = [drv EXCEPT !.idx = @ + 1]
    /\ UNCHANGED <<uart, mem, in_state>>

\* (mutant) a loop that runs once more
NsInMore_Inclusive(i, len) == i <= len

\* "i < len"
NsInMore(i, len) == i < len

\* "for (__sz i = 0; i < len; i++) ...  return len;"
NsInLoop ==
    /\ drv.pc = "ns_in"
    /\ IF NsInMore(drv.i, drv.dlen)
       THEN drv' = [drv EXCEPT !.pc = "getc"]
       ELSE drv' = [drv EXCEPT !.pc = "in_rc", !.val = drv.dlen]
    /\ UNCHANGED <<uart, mem, in_state>>

\* "ns16550_io_read(dev, NS16550_LSR_OFFSET) & NS16550_LSR_RX_EMPTY"
RxReady(u) ==
    And32(IoRead(u, NS16550_LSR_OFFSET), W32(NS16550_LSR_RX_EMPTY)) # W32(0)

\* "If RX FIFO is empty, return -1 immediately": ns16550_in then returns i
GetcPoll ==
    /\ drv.pc = "getc"
    /\ IF RxReady(Cur)
       THEN drv' = [drv EXCEPT !.pc = "getc_lcr", !.polls = @ + 1]
       ELSE drv' = [drv EXCEPT !.pc = "in_rc", !.polls = @ + 1,
                               !.val = drv.i]
    /\ UNCHANGED <<uart, mem, in_state>>

\* "Reset DLAB ..."
GetcLcr ==
    /\ drv.pc = "getc_lcr"
    /\ uart' = [uart EXCEPT ![drv.dev] =
                   IoWrite(Cur, NS16550_LCR_OFFSET,
                           LcrDlabOff(IoRead(Cur, NS16550_LCR_OFFSET)))]
    /\ drv' = [drv EXCEPT !.pc = "getc_rbr"]
    /\ UNCHANGED <<mem, in_state>>

\* "return (int)(ns16550_io_read(dev, NS16550_RBR_OFFSET) & 0xff);" and
\* "buf[i] = (char)rc;" with the loop's "i++"
GetcRbr ==
    /\ drv.pc = "getc_rbr"
    /\ LET rc == And32(IoRead(Cur, NS16550_RBR_OFFSET), W32(BYTE - 1)).lo
       IN  mem' = Store(mem, drv.off + drv.i, <<ToChar(rc)>>)
    /\ uart' = [uart EXCEPT ![drv.dev] = AfterRead(Cur, NS16550_RBR_OFFSET)]
    /\ drv' = [drv EXCEPT !.pc = "ns_in", !.i = @ + 1]
    /\ UNCHANGED in_state

\* "if (rc >= 0 && (__sz)rc <= leftover) { leftover -= rc; buf += rc; }
\*  if (leftover == 0) break;"
ConsoleInRc ==
    /\ drv.pc = "in_rc"
    /\ LET rc == drv.val
           acc == InAccepts(rc, drv.leftover)
           leftover == IF acc THEN drv.leftover - rc ELSE drv.leftover
           off == IF acc THEN drv.off + rc ELSE drv.off
       IN  IF InBreaks(rc, leftover)
           THEN drv' = [drv EXCEPT !.pc = "idle", !.leftover = leftover,
                                   !.off = off,
                                   !.ret = InRet(drv.len, leftover)]
           ELSE drv' = [drv EXCEPT !.pc = "in_loop", !.leftover = leftover,
                                   !.off = off, !.idx = @ + 1]
    /\ UNCHANGED <<uart, mem, in_state>>

\* a byte arrives on the line of UART d
RxArrive(d) ==
    /\ Len(uart[d].rx) < MaxLen
    /\ \E b \in LineBytes : uart' = [uart EXCEPT ![d].rx = Append(@, b)]
    /\ UNCHANGED <<drv, mem, in_state>>

Line == \E d \in Dev : RxArrive(d)

InThread ==
    \/ ConsoleInLoop
    \/ NsInLoop
    \/ GetcPoll
    \/ GetcLcr
    \/ GetcRbr
    \/ ConsoleInRc

NextIn ==
    \/ ns16550_register_console
    \/ ConsoleInCall
    \/ InThread
    \/ Line

SpecIn == InitUart /\ [][NextIn]_vars

\* the thread always gets to run; nothing is assumed of the line
FairSpecIn == SpecIn /\ WF_vars(InThread)

(* ------------------------------------------------------------------ *)
(* Properties                                                          *)
(* ------------------------------------------------------------------ *)

NumRegistered == Len(uk_console_device_list)

\* the k-th registered device
Nth(k) == uk_console_device_list[k]

\* C1: the k-th registered device (k = 0..N-1) has id k, all ids are
\* pairwise distinct, and uk_console_count() equals the number of devices
\* registered so far.
C1_IdsInRegistrationOrder ==
    /\ uk_console_count = NumRegistered
    /\ \A k \in 1..NumRegistered : con[Nth(k)].id = k - 1
    /\ \A i, j \in 1..NumRegistered :
           i # j => con[Nth(i)].id # con[Nth(j)].id

C1_Witness ==
    /\ NumRegistered >= 2
    /\ uk_console_count = NumRegistered
    /\ con[Nth(2)].id = 1

\* C2: a first device registered with zero flags ends up with IS_STDIN and
\* IS_STDOUT; every later device registered with zero flags keeps zero
\* flags; a device registered with non-zero flags keeps exactly those.
C2_FlagPromotion ==
    \A k \in 1..NumRegistered :
        LET d == Nth(k)
        IN  /\ (k = 1 /\ reg_flags[d] = 0) =>
                   con[d].flags = UK_CONSOLE_FLAG_STDIN + UK_CONSOLE_FLAG_STDOUT
            /\ (k > 1 /\ reg_flags[d] = 0) => con[d].flags = 0
            /\ reg_flags[d] # 0 => con[d].flags = reg_flags[d]

C2_Witness ==
    /\ NumRegistered >= 2
    /\ reg_flags[Nth(1)] = UK_CONSOLE_FLAG_STDOUT
    /\ con[Nth(1)].flags = UK_CONSOLE_FLAG_STDOUT
    /\ reg_flags[Nth(2)] = 0
    /\ con[Nth(2)].flags = 0

\* a device that serves as default standard input or output
IsDefaultIO(d) ==
    \/ BitAnd(con[d].flags, UK_CONSOLE_FLAG_STDIN) = UK_CONSOLE_FLAG_STDIN
    \/ BitAnd(con[d].flags, UK_CONSOLE_FLAG_STDOUT) = UK_CONSOLE_FLAG_STDOUT

\* C3: whenever at least one device is registered, at least one registered
\* device carries IS_STDIN or IS_STDOUT, whatever flags each device was
\* registered with and in whatever order.
C3_SomeDefaultDevice ==
    NumRegistered > 0 => \E d \in Registered : IsDefaultIO(d)

\* C4: the latch is one-shot: no step resets it, so it goes from unset to
\* set at most once, and it is set once the first registration returned.
C4_LatchOneShot ==
    /\ [][uk_console_set_standard_once = 1 =>
              uk_console_set_standard_once' = 1]_vars
    /\ [](uk_console_set_standard_once \in {0, 1})
    /\ [](NumRegistered > 0 => uk_console_set_standard_once = 1)

C4_Witness ==
    /\ NumRegistered >= 2
    /\ uk_console_set_standard_once = 1
    /\ reg_flags[Nth(1)] # 0
    /\ reg_flags[Nth(2)] = 0

\* a registered device flagged IS_STDOUT that has an out function
IsStdoutSink(d) ==
    /\ con[d].flags \in {UK_CONSOLE_FLAG_STDOUT,
                         UK_CONSOLE_FLAG_STDOUT + UK_CONSOLE_FLAG_STDIN}
    /\ con[d].ops \in {"oi", "o"}

\* a registered device flagged IS_STDIN that has an in function
IsStdinSource(d) ==
    /\ con[d].flags \in {UK_CONSOLE_FLAG_STDIN,
                         UK_CONSOLE_FLAG_STDOUT + UK_CONSOLE_FLAG_STDIN}
    /\ con[d].ops \in {"oi", "i"}

StdoutSinks == SelectSeq(uk_console_device_list, IsStdoutSink)

StdinSources == SelectSeq(uk_console_device_list, IsStdinSource)

OutCase == op.name = "out" /\ op.len > 0 /\ op.buf # NullBuf

InCase == op.name = "in" /\ op.len > 0 /\ op.buf # NullBuf

\* C5: uk_console_out with a buffer and len > 0 calls the out function of
\* exactly the IS_STDOUT devices that have one, once each, in registration
\* order, with the caller's buffer and len, and returns len whatever the
\* devices return.
C5_BroadcastOut ==
    OutCase =>
        /\ ret = op.len
        /\ Len(calls) = Len(StdoutSinks)
        /\ \A k \in 1..Len(calls) :
               /\ calls[k].dev = StdoutSinks[k]
               /\ calls[k].fn = "out"
               /\ calls[k].buf = op.buf
               /\ calls[k].len = op.len

C5_Witness ==
    /\ OutCase
    /\ op.len = MaxLen
    /\ Len(calls) >= 2
    /\ calls[1].rc = -1
    /\ calls[2].rc = 0
    /\ ret = op.len

\* bytes a polled device contributes: what it has, up to what it is asked
\* for; nothing when it returns an error or an impossible count
Contribution(c) ==
    IF c.resp.kind = "data"
    THEN (IF c.resp.n < c.len THEN c.resp.n ELSE c.len)
    ELSE 0

\* bytes collected by the first k device calls, and their concatenation
RECURSIVE Collected(_)
Collected(k) ==
    IF k = 0 THEN 0 ELSE Collected(k - 1) + Contribution(calls[k])

RECURSIVE Gathered(_)
Gathered(k) ==
    IF k = 0 THEN <<>>
    ELSE Gathered(k - 1)
             \o [j \in 1..Contribution(calls[k]) |-> RxByte(calls[k].dev, j)]

\* C6: uk_console_in with a buffer and len > 0 polls the IS_STDIN devices
\* that have an in function in registration order, asks each for exactly
\* the bytes still unfilled at the position after the bytes collected so
\* far, polls no device once the buffer is full, and returns the length of
\* the concatenation of what the devices delivered, which is what the
\* buffer then starts with.
C6_AggregateIn ==
    InCase =>
        /\ Len(calls) <= Len(StdinSources)
        /\ \A k \in 1..Len(calls) :
               /\ calls[k].dev = StdinSources[k]
               /\ calls[k].fn = "in"
               /\ calls[k].len = op.len - Collected(k - 1)
               /\ calls[k].len > 0
               /\ calls[k].buf = [base |-> "buf", off |-> Collected(k - 1)]
        /\ Len(calls) < Len(StdinSources) => Collected(Len(calls)) = op.len
        /\ ret = Collected(Len(calls))
        /\ SubSeq(mem, 1, ret) = Gathered(Len(calls))

\* the scaled example of the specification: A holds 1 byte, B holds 2, a
\* read of 2 bytes takes A's byte, then B's first, and leaves one in B
C6_Witness ==
    /\ InCase
    /\ op.len = 2
    /\ Len(calls) = 2
    /\ calls[1].resp = [kind |-> "data", n |-> 1]
    /\ calls[2].resp = [kind |-> "data", n |-> 2]
    /\ calls[2].len = 1
    /\ ret = 2
    /\ mem = <<RxByte(calls[1].dev, 1), RxByte(calls[2].dev, 1)>>

\* C7 as stated: a negative result of a device's in function ends the
\* aggregate read, no later device is polled.
C7_NegativeAborts ==
    InCase => \A k \in 1..Len(calls) : calls[k].rc < 0 => k = Len(calls)

\* C7 as the code has it: a negative result contributes no bytes and the
\* read goes on: the next IS_STDIN device with an in function is polled for
\* the same number of bytes at the same buffer position, and only the last
\* such device of the list can be the last one polled after a negative result.
C7_NegativeSkipped ==
    InCase =>
        \A k \in 1..Len(calls) :
            calls[k].rc < 0 =>
                IF k < Len(StdinSources)
                THEN /\ k < Len(calls)
                     /\ calls[k + 1].dev = StdinSources[k + 1]
                     /\ calls[k + 1].len = calls[k].len
                     /\ calls[k + 1].buf = calls[k].buf
                ELSE k = Len(calls)

C7_Witness ==
    /\ InCase
    /\ Len(calls) = 2
    /\ calls[1].rc < 0
    /\ calls[2].rc > 0
    /\ ret = calls[2].rc

\* C8: uk_console_in with a buffer and len > 0 returns a value in 0..len,
\* 0 when no stdin device exists or none has data, and a device result
\* that is negative or larger than the space asked for adds nothing to the
\* return value and leaves the buffer position where it was.
C8_InNeverFails ==
    InCase =>
        /\ ret \in 0..op.len
        /\ (\A k \in 1..Len(calls) :
                calls[k].resp.kind # "data" \/ calls[k].resp.n = 0) => ret = 0
        /\ \A k \in 1..Len(calls) :
               (calls[k].rc < 0 \/ calls[k].rc > calls[k].len) =>
                   IF k < Len(calls)
                   THEN /\ calls[k + 1].buf = calls[k].buf
                        /\ calls[k + 1].len = calls[k].len
                   ELSE ret = calls[k].buf.off

C8_Witness ==
    /\ InCase
    /\ op.len = MaxLen
    /\ Len(calls) = 2
    /\ calls[1].rc < 0
    /\ calls[2].rc > calls[2].len
    /\ ret = 0

IOCalls == {"out", "in", "out_direct", "in_direct"}

\* C9: a call of any of the four entry points with len = 0 returns 0 and
\* calls no device function, whatever the buffer, the registry and the
\* device argument are.
C9_ZeroLengthNoOp ==
    (op.name \in IOCalls /\ op.len = 0) => (ret = 0 /\ calls = <<>>)

C9_Witness ==
    /\ op.name = "in_direct"
    /\ op.len = 0
    /\ op.buf = NullBuf
    /\ op.dev = NullDev
    /\ ret = 0
    /\ calls = <<>>

\* the arguments of the pending call are invalid
InvalidArgs ==
    \/ op.name \in {"out", "in"} /\ op.buf = NullBuf
    \/ /\ op.name = "out_direct"
       /\ \/ op.buf = NullBuf
          \/ op.dev = NullDev
          \/ op.ops = "null"
          \/ op.ops \notin {"oi", "o"}
    \/ /\ op.name = "in_direct"
       /\ \/ op.buf = NullBuf
          \/ op.dev = NullDev
          \/ op.ops = "null"
          \/ op.ops \notin {"oi", "i"}

\* C10: with len > 0, a null buffer (all four entry points), a null device,
\* a device without ops table or a device lacking the requested function
\* (direct entry points) gives -EINVAL, and no device function is called.
C10_InvalidArgument ==
    (op.name \in IOCalls /\ op.len > 0 /\ InvalidArgs) =>
        (ret = -EINVAL /\ calls = <<>>)

C10_Witness ==
    /\ op.name = "in_direct"
    /\ op.len > 0
    /\ op.buf = Buf
    /\ op.dev \in Registered
    /\ op.ops = "o"
    /\ ret = -EINVAL
    /\ calls = <<>>

DirectCase ==
    /\ op.name \in {"out_direct", "in_direct"}
    /\ op.len > 0
    /\ op.buf # NullBuf

\* the direct call is made on a device object that was never registered
UnregisteredCase ==
    DirectCase /\ op.dev # NullDev /\ op.dev \notin Registered

\* the device object of the direct call has the function the call asks for
HasRequested ==
    \/ op.name = "out_direct" /\ op.ops \in {"oi", "o"}
    \/ op.name = "in_direct" /\ op.ops \in {"oi", "i"}

\* C11 as stated: a direct call with a buffer and len > 0 on a device that
\* was never registered returns -EINVAL and calls no device function.
C11_UnregisteredRejected ==
    UnregisteredCase => (ret = -EINVAL /\ calls = <<>>)

\* C11 as the code has it: registration is not looked at.  The call on a
\* never registered device calls the device's out / in function once, with
\* the caller's buffer and len, and returns its result when the device has
\* that function; it returns -EINVAL without a device call only when the
\* device has no ops table or lacks the function.
C11_UnregisteredDirect ==
    UnregisteredCase =>
        IF HasRequested
        THEN /\ Len(calls) = 1
             /\ calls[1].dev = op.dev
             /\ calls[1].buf = op.buf
             /\ calls[1].len = op.len
             /\ ret = calls[1].rc
        ELSE ret = -EINVAL /\ calls = <<>>

C11_Witness ==
    /\ UnregisteredCase
    /\ op.name = "out_direct"
    /\ op.ops = "o"
    /\ Len(calls) = 1
    /\ ret = op.len

\* C12: uk_console_get(id) is null for every id never assigned and, for an
\* assigned id, the device that was registered with it (the (id+1)-th
\* registration); a pending lookup returned that value.
C12_Lookup ==
    /\ \A id \in IdSet :
           uk_console_get(id) =
               IF id < NumRegistered THEN Nth(id + 1) ELSE NullDev
    /\ op.name = "get" =>
           ret = IF op.id < NumRegistered THEN Nth(op.id + 1) ELSE NullDev

C12_Witness ==
    /\ op.name = "get"
    /\ NumRegistered >= 2
    /\ op.id = 1
    /\ ret = Nth(2)

\* devices the pending call invoked
Called == {calls[k].dev : k \in 1..Len(calls)}

\* C13 as stated: every registered device that has an out function is
\* called by every later uk_console_out with valid arguments, and every one
\* that has an in function is polled by every uk_console_in that still has
\* room when it reaches it.
C13_EveryDeviceTakesPart ==
    /\ OutCase =>
           \A d \in Registered : con[d].ops \in {"oi", "o"} => d \in Called
    /\ InCase =>
           (ret < op.len =>
                \A d \in Registered : con[d].ops \in {"oi", "i"} => d \in Called)

\* C13 as the code has it: every registered device has a valid id (lookup
\* by it gives the device back), and it takes part in the broadcast /
\* aggregate calls exactly when it carries the flag and has the function:
\* a valid uk_console_out calls the out function of every IS_STDOUT device
\* that has one and of no other, a valid uk_console_in that returns fewer
\* bytes than asked has polled every IS_STDIN device that has an in
\* function, and never polls another device.
C13_FlaggedDevicesTakePart ==
    /\ \A d \in Registered :
           /\ con[d].id \in 0..(NumRegistered - 1)
           /\ uk_console_get(con[d].id) = d
    /\ OutCase => \A d \in Registered : (d \in Called <=> IsStdoutSink(d))
    /\ InCase =>
           /\ \A d \in Called : IsStdinSource(d)
           /\ ret < op.len =>
                  \A d \in Registered : IsStdinSource(d) => d \in Called

C13_Witness ==
    /\ OutCase
    /\ NumRegistered >= 2
    /\ IsStdoutSink(Nth(1))
    /\ IsStdoutSink(Nth(2))
    /\ Called = {Nth(1), Nth(2)}

\* C14: whenever a device is registered, some registered device has both
\* the STDOUT and the STDIN flag.
C14_SomeDeviceHasBoth ==
    NumRegistered > 0 =>
        \E d \in Registered : BitAnd(con[d].flags, STD_BOTH) = STD_BOTH

\* every registry variable the program itself holds
program_state ==
    <<uk_console_device_list, uk_console_device_count,
      uk_console_set_standard_once, con>>

\* C15: the lookups, the count and the I/O calls change nothing of the
\* registry; a registration appends its device at the tail and leaves the
\* order, the ids and the flags of the devices registered before as they
\* were; no device is ever removed.
C15_RegistryStable ==
    [][/\ Pending' => UNCHANGED program_state
       /\ NumRegistered' # NumRegistered =>
              /\ NumRegistered' = NumRegistered + 1
              /\ SubSeq(uk_console_device_list', 1, NumRegistered)
                     = uk_console_device_list
              /\ \A d \in Registered : con'[d] = con[d]
       /\ NumRegistered' = NumRegistered => UNCHANGED program_state]_vars

C15_Witness ==
    /\ NumRegistered >= 2
    /\ op.name = "in"
    /\ Len(calls) >= 1
    /\ con[Nth(1)].id = 0
    /\ con[Nth(1)].flags = STD_BOTH
    /\ reg_flags[Nth(1)] = 0

\* C19: ns16550_configure writes the divisor bytes with the divisor latch
\* open (DLAB set in the line control register), so that DLL = 0x01 and
\* DLM = 0x00 end up in the divisor latch and nothing goes to the transmit
\* holding or interrupt enable register, and it writes DLL and DLM at two
\* distinct register offsets.
C19_DivisorLatchProgrammed ==
    /\ drv.pc \in {"cfg_dll", "cfg_dlm"} => Dlab(Cur)
    /\ drv.pc = "cfg_ret" =>
           /\ Cur.dll = NS16550_DLL_115200
           /\ Cur.dlm = NS16550_DLM_115200
           /\ NS16550_DLL_OFFSET # NS16550_DLM_OFFSET

\* C20: whatever the line control register held, the value
\* ns16550_configure writes for the framing has the word length bits at
\* 0x03 and the stop and parity bits clear, and has BREAK and DLAB set only
\* if they were set in the value it read.
C20_Framing8N1 ==
    drv.pc = "cfg_dlab" =>
        /\ BitAnd(Cur.lcr, NS16550_LCR_WL) = NS16550_LCR_8N1
        /\ BitAnd(Cur.lcr, NS16550_LCR_STOP) = 0
        /\ BitAnd(Cur.lcr, NS16550_LCR_PARITY) = 0
        /\ BitAnd(drv.val, NS16550_LCR_BREAK) = 0 =>
               BitAnd(Cur.lcr, NS16550_LCR_BREAK) = 0
        /\ BitAnd(drv.val, NS16550_LCR_DLAB) = 0 =>
               BitAnd(Cur.lcr, NS16550_LCR_DLAB) = 0

\* what a buffer of chars looks like on the line: each char as a byte, a
\* carriage return in front of every line feed
RECURSIVE OnTheLine(_)
OnTheLine(b) ==
    IF b = <<>> THEN <<>>
    ELSE LET x == Head(b)
             byte == IF x < 0 THEN x + 256 ELSE x
         IN  (IF x = 10 THEN <<13, 10>> ELSE <<byte>>) \o OnTheLine(Tail(b))

\* list positions before the one uk_console_out is at whose device is
\* selected for output
OutServed ==
    {j \in 1..(drv.idx - 1) : OutSelected(con[uk_console_device_list[j]])}

\* C16: ns16550_out puts the bytes of the buffer on the line in order, a
\* carriage return in front of every line feed and nothing else added or
\* left out, writes the transmit register only once the transmitter has
\* reported empty, and returns len.
C16_OutTransmits ==
    /\ drv.pc = "ns_out" =>
           /\ drv.i = drv.len - drv.l
           /\ Cur.wire = OnTheLine(SubSeq(drv.buf, 1, drv.i))
    /\ drv.pc = "putc_thr" => Cur.tx
    /\ \A j \in OutServed :
           /\ uart[uk_console_device_list[j]].wire = OnTheLine(drv.buf)
           /\ drv.dlen = Len(drv.buf)

C16_Witness ==
    /\ drv.pc = "idle"
    /\ drv.ret = 2
    /\ drv.buf = <<-23, 10>>
    /\ \E j \in OutServed :
           uart[uk_console_device_list[j]].wire = <<233, 13, 10>>

\* devices later in the list than the one uk_console_out is at
OutAhead == {uk_console_device_list[j] :
                 j \in (drv.idx + 1)..Len(uk_console_device_list)}

\* C18: uk_console_out over NS16550 devices returns if the transmitter of
\* every device keeps becoming empty; if the transmitter-empty bit of the
\* device it waits on stays clear from some point on, the call waits there
\* for ever, and the devices later in the list have received nothing.
C18_NoTimeout ==
    /\ (\A d \in Dev : WF_vars(TxDrain(d))) =>
           ((drv.pc # "idle") ~> (drv.pc = "idle"))
    /\ \A d \in Dev :
           []((drv.pc = "putc_wait" /\ drv.dev = d /\ [](~uart[d].tx)) =>
                  [](drv.pc = "putc_wait" /\ drv.dev = d))
    /\ [](drv.pc # "idle" => \A d \in OutAhead : uart[d].wire = <<>>)

C18_Witness ==
    /\ drv.pc = "putc_wait"
    /\ ~Cur.tx
    /\ \E d \in OutAhead : OutSelected(con[d]) /\ uart[d].wire = <<>>

\* positions of the thread inside ns16550_in and at its return
InsideNsIn == drv.pc \in {"ns_in", "getc", "getc_lcr", "getc_rbr", "in_rc"}

\* C17: ns16550_in polls the receive status at most len times and never
\* waits: a poll that finds no data makes it return the number of bytes
\* stored so far, a poll that finds data stores the byte at the head of the
\* receive buffer at the next place of the caller's buffer; it returns len
\* only after len bytes; and uk_console_in over such devices always returns.
C17_InNeverWaits ==
    /\ [](InsideNsIn => drv.polls <= drv.dlen /\ drv.i <= drv.dlen)
    /\ [](drv.pc = "in_rc" =>
              /\ drv.val = drv.i
              /\ drv.polls = IF drv.val < drv.dlen THEN drv.val + 1
                             ELSE drv.dlen)
    /\ [][drv.pc = "getc" /\ drv' # drv =>
              IF uart[drv.dev].rx = <<>>
              THEN drv'.pc = "in_rc" /\ drv'.val = drv.i
              ELSE drv'.pc = "getc_lcr"]_vars
    /\ [][drv.pc = "getc_rbr" /\ drv' # drv =>
              LET b == Head(uart[drv.dev].rx)
              IN  /\ mem' = [mem EXCEPT ![drv.off + drv.i + 1] =
                                 IF b > 127 THEN b - 256 ELSE b]
                  /\ uart'[drv.dev].rx = Tail(uart[drv.dev].rx)]_vars
    /\ (drv.pc # "idle") ~> (drv.pc = "idle")

C17_Witness ==
    /\ drv.pc = "in_rc"
    /\ drv.dlen = 2
    /\ drv.val = 1
    /\ drv.polls = 2
    /\ mem[drv.off + 1] = -23
    /\ uart[drv.dev].rx = <<65>>
====
